---------------------------- MODULE Spec2Model ----------------------------
(***************************************************************************)
(* A model of Recipe.parse of src/cooklang.py: the comment stripper, the   *)
(* line splitter, the step renderer, the ingredient / cookware / timer     *)
(* extractors, the quantity parser, the ingredient merge and the metadata  *)
(* extractor.                                                              *)
(*                                                                         *)
(* Text is a sequence of one-character strings.  Every regular expression  *)
(* of the source is written out as the matcher it is: a position, the      *)
(* character classes it runs over, what it captures.  Offsets inside an    *)
(* Ingredient location are 0-based and half-open as in the source;         *)
(* positions inside the matchers are 1-based.                              *)
(***************************************************************************)
EXTENDS Integers, Sequences, FiniteSets, TLC

VARIABLES
    raw,              \* the argument of Recipe.parse
    pc,               \* the place reached inside Recipe.parse
    raw_paragraphs,   \* line 122
    raw_steps,        \* line 126
    steps,            \* line 132
    step_index,       \* raw_step_index of the loop of line 147 (0-based)
    ingr_match,       \* span() of ingr_match, the last match of the finditer of
                      \* line 148 in the current raw step (0-based, half-open);
                      \* <<0, 0>> before its first match
    ingredients,      \* line 146: the mentions, in scan order
    cookware,         \* line 153
    timers,           \* line 169
    deduped,          \* line 199: what `ingredients` is rebound to
    metadata,         \* line 213: a function from key to value
    err               \* the exception that left Recipe.parse, "" when none

vars == <<raw, pc, raw_paragraphs, raw_steps, steps, step_index, ingr_match,
          ingredients, cookware, timers, deduped, metadata, err>>

----------------------------------------------------------------------------
(* Characters *)

NL == "\n"

Letter == {"a", "b", "c", "d", "e", "f", "g", "h", "i", "j", "k", "l", "m",
           "n", "o", "p", "q", "r", "s", "t", "u", "v", "w", "x", "y", "z"}

Digit == {"0", "1", "2", "3", "4", "5", "6", "7", "8", "9"}

\* \w, over the lower-case ASCII letters, the digits and the underscore
Word == Letter \cup Digit \cup {"_"}

\* What str.strip, int, float and Fraction take as surrounding whitespace.
Whitespace == {" ", "\n", "\t"}

\* [\w ]
WordOrBlank == Word \cup {" "}

----------------------------------------------------------------------------
(* Sequence helpers *)

SetMax(S) == CHOOSE x \in S : \A y \in S : y <= x

SetMin(S) == CHOOSE x \in S : \A y \in S : x <= y

\* s[i], or "" (no character) outside s
At(s, i) == IF i >= 1 /\ i <= Len(s) THEN s[i] ELSE ""

\* s[a .. b-1]
Slice(s, a, b) == SubSeq(s, a, b - 1)

\* The first position at or after i whose character is not in C (Len(s) + 1
\* when there is none): the end of a greedy run C* started at i.
RECURSIVE RunEnd(_, _, _)
RunEnd(s, i, C) ==
    IF i <= Len(s) /\ s[i] \in C THEN RunEnd(s, i + 1, C) ELSE i

\* The same for a negated class [^C]*.
RECURSIVE RunEndNot(_, _, _)
RunEndNot(s, i, C) ==
    IF i <= Len(s) /\ s[i] \notin C THEN RunEndNot(s, i + 1, C) ELSE i

StartsWith(s, p) == Len(s) >= Len(p) /\ SubSeq(s, 1, Len(p)) = p

\* str.strip
Strip(s) ==
    LET keep == {i \in 1..Len(s) : s[i] \notin Whitespace}
    IN  IF keep = {} THEN <<>> ELSE SubSeq(s, SetMin(keep), SetMax(keep))

\* str.split(sep)
RECURSIVE Split(_, _)
Split(s, sep) ==
    LET k == RunEndNot(s, 1, {sep})
    IN  IF k > Len(s) THEN <<s>>
        ELSE <<SubSeq(s, 1, k - 1)>> \o Split(SubSeq(s, k + 1, Len(s)), sep)

RECURSIVE Concat(_)
Concat(ss) == IF ss = <<>> THEN <<>> ELSE Head(ss) \o Concat(Tail(ss))

----------------------------------------------------------------------------
(* Preprocessor: lines 121-131 *)

\* (--[^\n]+|\[-.*-\]) tried at position i: the position after the match, 0
\* when it does not match there.  `.*` is greedy: it runs to the last "-]" of
\* the line.
CommentMatch(s, i) ==
    IF At(s, i) = "-" /\ At(s, i + 1) = "-"
    THEN LET e == RunEndNot(s, i + 2, {NL}) IN IF e > i + 2 THEN e ELSE 0
    ELSE IF At(s, i) = "[" /\ At(s, i + 1) = "-"
    THEN LET eol == RunEndNot(s, i + 2, {NL})
             closers == {j \in (i + 2)..(eol - 2) : s[j] = "-" /\ s[j + 1] = "]"}
         IN  IF closers = {} THEN 0 ELSE SetMax(closers) + 2
    ELSE 0

\* re.sub(r"(--[^\n]+|\[-.*-\])", "", raw), from position i on
RECURSIVE StripCommentsFrom(_, _)
StripCommentsFrom(s, i) ==
    IF i > Len(s) THEN <<>>
    ELSE LET e == CommentMatch(s, i)
         IN  IF e > 0 THEN StripCommentsFrom(s, e)
             ELSE <<s[i]>> \o StripCommentsFrom(s, i + 1)

StripComments(s) == StripCommentsFrom(s, 1)

\* list(filter(None, map(str.strip, raw_without_comments.split("\n"))))
RECURSIVE StripEach(_)
StripEach(ls) ==
    IF ls = <<>> THEN <<>> ELSE <<Strip(Head(ls))>> \o StripEach(Tail(ls))

NonEmpty(s) == s # <<>>

Paragraphs(s) == SelectSeq(StripEach(Split(StripComments(s), NL)), NonEmpty)

IsMetadataLine(s) == StartsWith(s, <<">", ">">>)

IsStepLine(s) == ~IsMetadataLine(s)

RawSteps(ps) == SelectSeq(ps, IsStepLine)

----------------------------------------------------------------------------
(* Renderer: lines 132-143 *)

NoMatch == [end |-> 0, g1 |-> <<>>, g2 |-> <<>>]

\* ~[\w ]*\{([^}%]*)(?:%([^}]+))?} tried at position i
TimerRenderMatch(s, i) ==
    IF At(s, i) # "~" THEN NoMatch
    ELSE LET b == RunEnd(s, i + 1, WordOrBlank)
             e1 == RunEndNot(s, b + 1, {"}", "%"})
             e2 == RunEndNot(s, e1 + 1, {"}"})
         IN  IF At(s, b) # "{" THEN NoMatch
             ELSE IF At(s, e1) = "}"
             THEN [end |-> e1 + 1, g1 |-> Slice(s, b + 1, e1), g2 |-> <<>>]
             ELSE IF At(s, e1) = "%" /\ e2 > e1 + 1 /\ At(s, e2) = "}"
             THEN [end |-> e2 + 1, g1 |-> Slice(s, b + 1, e1),
                   g2 |-> Slice(s, e1 + 1, e2)]
             ELSE NoMatch

\* the inner re.sub, replacement r"\1 \2"
RECURSIVE RenderTimersFrom(_, _)
RenderTimersFrom(s, i) ==
    IF i > Len(s) THEN <<>>
    ELSE LET m == TimerRenderMatch(s, i)
         IN  IF m.end > 0
             THEN m.g1 \o <<" ">> \o m.g2 \o RenderTimersFrom(s, m.end)
             ELSE <<s[i]>> \o RenderTimersFrom(s, i + 1)

\* (?:@|#)(\w[\w ]*)({[^}]*})? tried at position i
NameRenderMatch(s, i) ==
    IF At(s, i) \in {"@", "#"} /\ At(s, i + 1) \in Word
    THEN LET e == RunEnd(s, i + 2, WordOrBlank)
             c == RunEndNot(s, e + 1, {"}"})
         IN  [end |-> IF At(s, e) = "{" /\ At(s, c) = "}" THEN c + 1 ELSE e,
              g1 |-> Slice(s, i + 1, e), g2 |-> <<>>]
    ELSE NoMatch

\* the outer re.sub, replacement r"\1"
RECURSIVE RenderNamesFrom(_, _)
RenderNamesFrom(s, i) ==
    IF i > Len(s) THEN <<>>
    ELSE LET m == NameRenderMatch(s, i)
         IN  IF m.end > 0 THEN m.g1 \o RenderNamesFrom(s, m.end)
             ELSE <<s[i]>> \o RenderNamesFrom(s, i + 1)

RenderStep(raw_step) == RenderNamesFrom(RenderTimersFrom(raw_step, 1), 1)

RECURSIVE RenderSteps(_)
RenderSteps(rs) ==
    IF rs = <<>> THEN <<>> ELSE <<RenderStep(Head(rs))>> \o RenderSteps(Tail(rs))

----------------------------------------------------------------------------
(* Annotation extractor: the patterns of lines 145, 160 and 176 *)

\* sigil(?:(?:[\w ]+?){[^}]*}|[\w]+) tried at position i (and the same with
\* [\w ]*? when minName = 0): the position after the match, 0 when it does not
\* match there.  The lazy name can only stop at the "{" that ends the run of
\* [\w ] characters, and the braces close at the first "}".
AnnotationMatch(s, i, sigil, minName) ==
    IF At(s, i) # sigil THEN 0
    ELSE LET b == RunEnd(s, i + 1, WordOrBlank)
             c == RunEndNot(s, b + 1, {"}"})
             w == RunEnd(s, i + 1, Word)
         IN  IF b - (i + 1) >= minName /\ At(s, b) = "{" /\ At(s, c) = "}"
             THEN c + 1
             ELSE IF w > i + 1 THEN w ELSE 0

\* The start of the first match at or after position i, 0 when there is none.
RECURSIVE NextMatchStart(_, _, _, _)
NextMatchStart(s, i, sigil, minName) ==
    IF i > Len(s) THEN 0
    ELSE IF AnnotationMatch(s, i, sigil, minName) > 0 THEN i
    ELSE NextMatchStart(s, i + 1, sigil, minName)

\* re.findall of the pattern: the matched texts, left to right
RECURSIVE FindAllFrom(_, _, _, _)
FindAllFrom(s, i, sigil, minName) ==
    IF i > Len(s) THEN <<>>
    ELSE LET e == AnnotationMatch(s, i, sigil, minName)
         IN  IF e > 0 THEN <<Slice(s, i, e)>> \o FindAllFrom(s, e, sigil, minName)
             ELSE FindAllFrom(s, i + 1, sigil, minName)

\* ^sigil([^{]+)(?:{([^}]*)})? and ^~([^{]*)(?:{([^}]*)})? on a matched text:
\* the name and the raw amount
AnnotationName(m) == Slice(m, 2, RunEndNot(m, 2, {"{"}))

AnnotationRawAmount(m) ==
    LET nb == RunEndNot(m, 2, {"{"})
        ce == RunEndNot(m, nb + 1, {"}"})
    IN  IF At(m, nb) = "{" /\ At(m, ce) = "}" THEN Slice(m, nb + 1, ce) ELSE <<>>

----------------------------------------------------------------------------
(* Quantity parser: _get_quantity, lines 229-244 *)

\* The value None of an Optional[Quantity]
NoQuantity == [some |-> FALSE, tag |-> "", num |-> 0, den |-> 1, unit |-> <<>>]

\* A Quantity.  tag is the type of amount: "int", "float" (num / den with den a
\* power of ten, in lowest terms) or "Fraction" (num / den in lowest terms).
\* unit is <<>> for None.
MkQuantity(tag, num, den, unit) ==
    [some |-> TRUE, tag |-> tag, num |-> num, den |-> den, unit |-> unit]

DigitValue(c) ==
    CASE c = "0" -> 0 [] c = "1" -> 1 [] c = "2" -> 2 [] c = "3" -> 3
      [] c = "4" -> 4 [] c = "5" -> 5 [] c = "6" -> 6 [] c = "7" -> 7
      [] c = "8" -> 8 [] c = "9" -> 9

AllDigits(s) == \A i \in 1..Len(s) : s[i] \in Digit

RECURSIVE DigitsValue(_)
DigitsValue(s) ==
    IF s = <<>> THEN 0
    ELSE 10 * DigitsValue(SubSeq(s, 1, Len(s) - 1)) + DigitValue(s[Len(s)])

RECURSIVE Pow10(_)
Pow10(n) == IF n = 0 THEN 1 ELSE 10 * Pow10(n - 1)

RECURSIVE GCD(_, _)
GCD(a, b) == IF b = 0 THEN a ELSE GCD(b, a % b)

\* A decimal num / den (den a power of ten) in lowest terms
RECURSIVE NormDecimal(_, _)
NormDecimal(num, den) ==
    IF den > 1 /\ num % 10 = 0 THEN NormDecimal(num \div 10, den \div 10)
    ELSE <<num, den>>

\* re.findall(r"([^%}]+)%?([\w]+)?", raw_amount): its first match, or found
\* FALSE when the list is empty
QuantityMatch(raw_amount) ==
    LET st == RunEnd(raw_amount, 1, {"%", "}"})
        e == RunEndNot(raw_amount, st, {"%", "}"})
        u0 == IF At(raw_amount, e) = "%" THEN e + 1 ELSE e
        u1 == RunEnd(raw_amount, u0, Word)
    IN  IF st > Len(raw_amount)
        THEN [found |-> FALSE, amount |-> <<>>, unit |-> <<>>]
        ELSE [found |-> TRUE, amount |-> Slice(raw_amount, st, e),
              unit |-> Slice(raw_amount, u0, u1)]

\* int(s), float(s) and Fraction(s) on text of digits, ".", "/" and blanks:
\* [err |-> the exception or "", tag, num, den].  Signs, digit-group
\* underscores and exponents are not written in the inputs.
ParseAmount(amount_as_str) ==
    LET t == Strip(amount_as_str)
        dot == RunEndNot(t, 1, {"."})
        slash == RunEndNot(t, 1, {"/"})
        fail(e) == [err |-> e, tag |-> "", num |-> 0, den |-> 1]
    IN  IF dot <= Len(t)
        THEN LET ip == Slice(t, 1, dot)
                 fp == Slice(t, dot + 1, Len(t) + 1)
                 nd == NormDecimal(DigitsValue(ip \o fp), Pow10(Len(fp)))
             IN  IF AllDigits(ip) /\ AllDigits(fp) /\ Len(ip) + Len(fp) > 0
                 THEN [err |-> "", tag |-> "float", num |-> nd[1], den |-> nd[2]]
                 ELSE fail("ValueError")
        ELSE IF slash <= Len(t)
        THEN LET np == Slice(t, 1, slash)
                 dp == Slice(t, slash + 1, Len(t) + 1)
                 n == DigitsValue(np)
                 d == DigitsValue(dp)
                 g == GCD(n, d)
             IN  IF ~(AllDigits(np) /\ AllDigits(dp) /\ np # <<>> /\ dp # <<>>)
                 THEN fail("ValueError")
                 ELSE IF d = 0 THEN fail("ZeroDivisionError")
                 ELSE [err |-> "", tag |-> "Fraction", num |-> n \div g,
                       den |-> d \div g]
        ELSE IF AllDigits(t) /\ t # <<>>
        THEN [err |-> "", tag |-> "int", num |-> DigitsValue(t), den |-> 1]
        ELSE fail("ValueError")

\* _get_quantity(re.findall(..., raw_amount)): [err, val]
GetQuantity(raw_amount) ==
    LET match == QuantityMatch(raw_amount)
        a == ParseAmount(match.amount)
    IN  IF ~match.found THEN [err |-> "", val |-> NoQuantity]
        ELSE IF match.amount = <<>> THEN [err |-> "", val |-> NoQuantity]
        ELSE IF a.err # "" THEN [err |-> a.err, val |-> NoQuantity]
        ELSE [err |-> "", val |-> MkQuantity(a.tag, a.num, a.den, match.unit)]

----------------------------------------------------------------------------
(* Quantity: lines 13-38 *)

\* round(x, 1) of the decimal num / den, x >= 0.  A tie goes to the even
\* tenth here; the inputs hold no sum that is a tie, where the binary value
\* of the float decides.
RoundOne(num, den) ==
    IF den <= 10 THEN NormDecimal(num, den)
    ELSE LET q == den \div 10
             t == num \div q
             r == num % q
             up == 2 * r > q \/ (2 * r = q /\ t % 2 = 1)
         IN  NormDecimal(IF up THEN t + 1 ELSE t, 10)

\* Quantity.__add__ without the comparison of the units and of the types of
\* lines 24-30: whatever the second operand is, it is added to the first
QuantityAddUnchecked(self, other) ==
    IF self.tag = "float"
    THEN LET d == IF self.den > other.den THEN self.den ELSE other.den
             n == self.num * (d \div self.den) + other.num * (d \div other.den)
             r == RoundOne(n, d)
         IN  [err |-> "", val |-> MkQuantity("float", r[1], r[2], self.unit)]
    ELSE LET n == self.num * other.den + other.num * self.den
             d == self.den * other.den
             g == GCD(n, d)
         IN  [err |-> "",
              val |-> MkQuantity(self.tag, n \div g, d \div g, self.unit)]

\* Quantity.__add__: [err, val]
QuantityAdd(self, other) ==
    IF self.unit # other.unit THEN [err |-> "ValueError", val |-> NoQuantity]
    ELSE IF self.tag # other.tag THEN [err |-> "ValueError", val |-> NoQuantity]
    ELSE IF self.tag = "int"
    THEN [err |-> "", val |-> MkQuantity("int", self.num + other.num, 1, self.unit)]
    ELSE IF self.tag = "Fraction"
    THEN LET n == self.num * other.den + other.num * self.den
             d == self.den * other.den
             g == GCD(n, d)
         IN  [err |-> "",
              val |-> MkQuantity("Fraction", n \div g, d \div g, self.unit)]
    ELSE LET d == IF self.den > other.den THEN self.den ELSE other.den
             n == self.num * (d \div self.den) + other.num * (d \div other.den)
             r == RoundOne(n, d)
         IN  [err |-> "", val |-> MkQuantity("float", r[1], r[2], self.unit)]

\* Quantity.add_optional: a Quantity object is always truthy
QuantityAddOptional(a, b) ==
    IF a.some /\ b.some THEN QuantityAdd(a, b)
    ELSE IF a.some THEN [err |-> "", val |-> a]
    ELSE IF b.some THEN [err |-> "", val |-> b]
    ELSE [err |-> "", val |-> NoQuantity]

----------------------------------------------------------------------------
(* Ingredient: lines 63-108 *)

\* re.search(name, text[from:]) for a name of [\w ] characters: the 0-based
\* start of the first occurrence at or after from, -1 when there is none
Search(name, text, from) ==
    LET hits == {k \in from..(Len(text) - Len(name)) :
                     SubSeq(text, k + 1, k + Len(name)) = name}
    IN  IF hits = {} THEN -1 ELSE SetMin(hits)

\* last_ingr_index when the search of line 90 starts at the head of the step
LastIngrIndexFromStart(current_ingredients, idx) == 0

\* last_ingr_index, lines 82-89
LastIngrIndex(current_ingredients, idx) ==
    LET on == {k \in 1..Len(current_ingredients) :
                   current_ingredients[k].location[1] = idx}
    IN  IF on = {} THEN 0 ELSE current_ingredients[SetMax(on)].location[3]

\* lines 90-95: the 0-based start of the location, -1 when re.search finds
\* nothing
LocationStart(name, step, last_ingr_index) == Search(name, step, last_ingr_index)

NoIngredient == [name |-> <<>>, location |-> <<0, 0, 0>>, quantity |-> NoQuantity]

\* Ingredient.parse: [err, val].  The location is worked out before the
\* quantity, so a search that finds nothing raises first.
IngredientParse(m, idx, rendered, current_ingredients) ==
    LET name == AnnotationName(m)
        last == LastIngrIndex(current_ingredients, idx)
        st == LocationStart(name, rendered[idx + 1], last)
        q == GetQuantity(AnnotationRawAmount(m))
    IN  IF st < 0 THEN [err |-> "AttributeError", val |-> NoIngredient]
        ELSE IF q.err # "" THEN [err |-> q.err, val |-> NoIngredient]
        ELSE [err |-> "",
              val |-> [name |-> name, location |-> <<idx, st, st + Len(name)>>,
                       quantity |-> q.val]]

\* Ingredient.__add__ when the sum takes the location of its second operand
IngredientAddLocationOfOther(self, other) ==
    LET q == QuantityAddOptional(self.quantity, other.quantity)
    IN  IF self.name # other.name THEN [err |-> "ValueError", val |-> NoIngredient]
        ELSE IF q.err # "" THEN [err |-> q.err, val |-> NoIngredient]
        ELSE [err |-> "",
              val |-> [name |-> self.name, location |-> other.location,
                       quantity |-> q.val]]

\* Ingredient.__add__: [err, val]
IngredientAdd(self, other) ==
    LET q == QuantityAddOptional(self.quantity, other.quantity)
    IN  IF self.name # other.name THEN [err |-> "ValueError", val |-> NoIngredient]
        ELSE IF q.err # "" THEN [err |-> q.err, val |-> NoIngredient]
        ELSE [err |-> "",
              val |-> [name |-> self.name, location |-> self.location,
                       quantity |-> q.val]]

\* _remove_duplicates, lines 186-197: name_to_ingredient keeps the order in
\* which the names were first inserted.  [err, val]
RECURSIVE RemoveDuplicatesFrom(_, _, _)
RemoveDuplicatesFrom(ings, k, name_to_ingredient) ==
    IF k > Len(ings) THEN [err |-> "", val |-> name_to_ingredient]
    ELSE LET i == ings[k]
             at == {j \in 1..Len(name_to_ingredient) :
                        name_to_ingredient[j].name = i.name}
             j == CHOOSE x \in at : TRUE
             sum == IngredientAdd(name_to_ingredient[j], i)
         IN  IF at = {}
             THEN RemoveDuplicatesFrom(ings, k + 1, Append(name_to_ingredient, i))
             ELSE IF sum.err # "" THEN [err |-> sum.err, val |-> <<>>]
             ELSE RemoveDuplicatesFrom(ings, k + 1,
                      [name_to_ingredient EXCEPT ![j] = sum.val])

RemoveDuplicates(ings) == RemoveDuplicatesFrom(ings, 1, <<>>)

----------------------------------------------------------------------------
(* Cookware and timers: lines 153-184, Timer.parse lines 46-50 *)

RECURSIVE CookwareOfMatches(_)
CookwareOfMatches(ms) ==
    IF ms = <<>> THEN <<>>
    ELSE <<AnnotationName(Head(ms))>> \o CookwareOfMatches(Tail(ms))

\* the cookware of every raw step, chained
RECURSIVE ExtractCookware(_)
ExtractCookware(rs) ==
    IF rs = <<>> THEN <<>>
    ELSE CookwareOfMatches(FindAllFrom(Head(rs), 1, "#", 1))
             \o ExtractCookware(Tail(rs))

\* Timer.parse on each match, stopping at the first that raises: [err, val]
RECURSIVE TimersOfMatches(_, _)
TimersOfMatches(ms, acc) ==
    IF ms = <<>> THEN [err |-> "", val |-> acc]
    ELSE LET q == GetQuantity(AnnotationRawAmount(Head(ms)))
         IN  IF q.err # "" THEN [err |-> q.err, val |-> <<>>]
             ELSE TimersOfMatches(Tail(ms),
                      Append(acc, [name |-> AnnotationName(Head(ms)),
                                   quantity |-> q.val]))

RECURSIVE AllTimerMatches(_)
AllTimerMatches(rs) ==
    IF rs = <<>> THEN <<>>
    ELSE FindAllFrom(Head(rs), 1, "~", 0) \o AllTimerMatches(Tail(rs))

ExtractTimers(rs) == TimersOfMatches(AllTimerMatches(rs), <<>>)

----------------------------------------------------------------------------
(* Metadata: lines 201-218 *)

\* _extract_metadata: ^>> ?([^:]+): ?(.*)$ matches when a ":" follows at
\* least one character after ">>"; both groups are stripped
ExtractMetadata(raw_line) ==
    LET c == RunEndNot(raw_line, 3, {":"})
    IN  IF StartsWith(raw_line, <<">", ">">>) /\ c <= Len(raw_line) /\ c > 3
        THEN [found |-> TRUE, key |-> Strip(Slice(raw_line, 3, c)),
              value |-> Strip(Slice(raw_line, c + 1, Len(raw_line) + 1))]
        ELSE [found |-> FALSE, key |-> <<>>, value |-> <<>>]

\* dict(...) when a pair does not replace an earlier pair of its key
RECURSIVE MetadataDictKeepFirst(_, _)
MetadataDictKeepFirst(raw_metadata, d) ==
    IF raw_metadata = <<>> THEN d
    ELSE LET m == ExtractMetadata(Head(raw_metadata))
         IN  MetadataDictKeepFirst(Tail(raw_metadata),
                 IF m.found /\ m.key \notin DOMAIN d
                 THEN [k \in DOMAIN d \cup {m.key} |->
                          IF k = m.key THEN m.value ELSE d[k]]
                 ELSE d)

\* dict(filter(None, ...)): a later pair replaces an earlier one of its key
RECURSIVE MetadataDict(_, _)
MetadataDict(raw_metadata, d) ==
    IF raw_metadata = <<>> THEN d
    ELSE LET m == ExtractMetadata(Head(raw_metadata))
         IN  MetadataDict(Tail(raw_metadata),
                 IF m.found
                 THEN [k \in DOMAIN d \cup {m.key} |->
                          IF k = m.key THEN m.value ELSE d[k]]
                 ELSE d)

EmptyDict == [k \in {} |-> <<>>]

RawMetadata(ps) == SelectSeq(ps, IsMetadataLine)

----------------------------------------------------------------------------
(* Inputs: texts put together from a few fragments of recipe markup *)

MaxFragments == 3

MaxSigilFragments == 4

MaxCommentFragments == 4

MaxMetadataFragments == 4

\* The texts made of at most n fragments of F
Texts(F, n) == {Concat(fs) : fs \in UNION {[1..k -> F] : k \in 0..n}}

\* @s  @s{1}  @s{1%g}  @s{.14}  @s{1/2}  @p{2}  @s{}  @s{%g}  #p{@s}  "s "  newline
IngredientFragments ==
    { <<"@", "s">>,
      <<"@", "s", "{", "1", "}">>,
      <<"@", "s", "{", "1", "%", "g", "}">>,
      <<"@", "s", "{", ".", "1", "4", "}">>,
      <<"@", "s", "{", "1", "/", "2", "}">>,
      <<"@", "p", "{", "2", "}">>,
      <<"@", "s", "{", "}">>,
      <<"@", "s", "{", "%", "g", "}">>,
      <<"#", "p", "{", "@", "s", "}">>,
      <<"s", " ">>,
      <<NL>> }

\* ~  @  #  blank  t  {}  {1%m}
SigilFragments ==
    { <<"~">>, <<"@">>, <<"#">>, <<" ">>, <<"t">>, <<"{", "}">>,
      <<"{", "1", "%", "m", "}">> }

\* [-a-]  --  a  b  blank  newline
CommentFragments ==
    { <<"[", "-", "a", "-", "]">>, <<"-", "-">>, <<"a">>, <<"b">>, <<" ">>,
      <<NL>> }

\* >>a:b  ">> a : a"  >>b  a  :  " b"  newline
MetadataFragments ==
    { <<">", ">", "a", ":", "b">>,
      <<">", ">", " ", "a", " ", ":", " ", "a">>,
      <<">", ">", "b">>,
      <<"a">>, <<":">>, <<" ", "b">>, <<NL>> }

----------------------------------------------------------------------------
(* Recipe.parse, lines 119-226 *)

InitWith(text) ==
    /\ raw = text
    /\ pc = "preprocess"
    /\ raw_paragraphs = <<>>
    /\ raw_steps = <<>>
    /\ steps = <<>>
    /\ step_index = 0
    /\ ingr_match = <<0, 0>>
    /\ ingredients = <<>>
    /\ cookware = <<>>
    /\ timers = <<>>
    /\ deduped = <<>>
    /\ metadata = EmptyDict
    /\ err = ""

Init == \E text \in Texts(IngredientFragments, MaxFragments) : InitWith(text)

InitSigils == \E text \in Texts(SigilFragments, MaxSigilFragments) : InitWith(text)

InitComments ==
    \E text \in Texts(CommentFragments, MaxCommentFragments) : InitWith(text)

InitMetadata ==
    \E text \in Texts(MetadataFragments, MaxMetadataFragments) : InitWith(text)

\* lines 121-131
Preprocess ==
    /\ pc = "preprocess"
    /\ raw_paragraphs' = Paragraphs(raw)
    /\ raw_steps' = RawSteps(Paragraphs(raw))
    /\ pc' = "render"
    /\ UNCHANGED <<raw, steps, step_index, ingr_match, ingredients, cookware,
                   timers, deduped, metadata, err>>

\* lines 132-143
Render ==
    /\ pc = "render"
    /\ steps' = RenderSteps(raw_steps)
    /\ pc' = "ingredients"
    /\ UNCHANGED <<raw, raw_paragraphs, raw_steps, step_index, ingr_match,
                   ingredients, cookware, timers, deduped, metadata, err>>

\* lines 145-151: one turn of the loops, which is the next match of ingr_pat
\* in the current raw step, or the move to the next raw step, or the end of
\* the outer loop.  An exception of Ingredient.parse leaves Recipe.parse.
ScanIngredients ==
    /\ pc = "ingredients"
    /\ LET over == step_index >= Len(raw_steps)
           raw_step == raw_steps[step_index + 1]
           st == NextMatchStart(raw_step, ingr_match[2] + 1, "@", 1)
           e == AnnotationMatch(raw_step, st, "@", 1)
           r == IngredientParse(Slice(raw_step, st, e), step_index, steps,
                                ingredients)
       IN  IF over
           THEN /\ pc' = "cookware"
                /\ UNCHANGED <<step_index, ingr_match, ingredients, err>>
           ELSE IF st = 0
           THEN /\ step_index' = step_index + 1
                /\ ingr_match' = <<0, 0>>
                /\ UNCHANGED <<pc, ingredients, err>>
           ELSE IF r.err # ""
           THEN /\ pc' = "failed"
                /\ err' = r.err
                /\ ingr_match' = <<st - 1, e - 1>>
                /\ UNCHANGED <<step_index, ingredients>>
           ELSE /\ ingredients' = Append(ingredients, r.val)
                /\ ingr_match' = <<st - 1, e - 1>>
                /\ UNCHANGED <<pc, step_index, err>>
    /\ UNCHANGED <<raw, raw_paragraphs, raw_steps, steps, cookware, timers,
                   deduped, metadata>>

\* lines 153-168
Cookware ==
    /\ pc = "cookware"
    /\ cookware' = ExtractCookware(raw_steps)
    /\ pc' = "timers"
    /\ UNCHANGED <<raw, raw_paragraphs, raw_steps, steps, step_index, ingr_match,
                   ingredients, timers, deduped, metadata, err>>

\* lines 169-184
Timers ==
    /\ pc = "timers"
    /\ LET r == ExtractTimers(raw_steps)
       IN  /\ timers' = r.val
           /\ err' = r.err
           /\ pc' = IF r.err # "" THEN "failed" ELSE "dedupe"
    /\ UNCHANGED <<raw, raw_paragraphs, raw_steps, steps, step_index, ingr_match,
                   ingredients, cookware, deduped, metadata>>

\* lines 186-199
Deduplicate ==
    /\ pc = "dedupe"
    /\ LET r == RemoveDuplicates(ingredients)
       IN  /\ deduped' = r.val
           /\ err' = r.err
           /\ pc' = IF r.err # "" THEN "failed" ELSE "metadata"
    /\ UNCHANGED <<raw, raw_paragraphs, raw_steps, steps, step_index, ingr_match,
                   ingredients, cookware, timers, metadata>>

\* lines 201-226: the metadata, and the Recipe is returned
Metadata ==
    /\ pc = "metadata"
    /\ metadata' = MetadataDict(RawMetadata(raw_paragraphs), EmptyDict)
    /\ pc' = "done"
    /\ UNCHANGED <<raw, raw_paragraphs, raw_steps, steps, step_index, ingr_match,
                   ingredients, cookware, timers, deduped, err>>

Next ==
    \/ Preprocess
    \/ Render
    \/ ScanIngredients
    \/ Cookware
    \/ Timers
    \/ Deduplicate
    \/ Metadata

\* The ingredient texts
Spec == Init /\ [][Next]_vars

\* The texts of sigils, names and braces
SpecSigils == InitSigils /\ [][Next]_vars

\* The texts of comments
SpecComments == InitComments /\ [][Next]_vars

\* The texts of metadata lines
SpecMetadata == InitMetadata /\ [][Next]_vars

----------------------------------------------------------------------------
(* The mentions of the ingredient loop, as the properties below speak of them *)

Abs(x) == IF x < 0 THEN -x ELSE x

\* The places in the scan order of the mentions of the name n, and of those
\* that carry a quantity
MentionsOf(n) == {k \in 1..Len(ingredients) : ingredients[k].name = n}

QuantifiedMentionsOf(n) == {k \in MentionsOf(n) : ingredients[k].quantity.some}

\* The raw step the ingredient loop is in, and the text of its last match
CurrentRawStep == raw_steps[step_index + 1]

CurrentMatchText == Slice(CurrentRawStep, ingr_match[1] + 1, ingr_match[2] + 1)

\* Ingredient.parse has just returned the last entry of `ingredients` for
\* ingr_match
MentionParsed == pc = "ingredients" /\ ingr_match[2] > 0

\* Ingredient.parse has just raised on ingr_match
MentionRaised == pc = "failed" /\ ingr_match[2] > 0

LastMention == ingredients[Len(ingredients)]

----------------------------------------------------------------------------
(* C4 *)

\* C4: on every step line the spans of the mentions, in scan order and before
\* the merge, are ordered and disjoint: a mention starts at or after the end
\* of every earlier mention of the same line, and no span is empty.
C4_SpansOrdered ==
    \A j \in 1..Len(ingredients) :
        /\ ingredients[j].location[2] < ingredients[j].location[3]
        /\ \A i \in 1..(j - 1) :
               ingredients[i].location[1] = ingredients[j].location[1]
                   => ingredients[i].location[3] <= ingredients[j].location[2]

\* Two mentions of one name on one step line have both been given a span.
C4_Witness ==
    \E i, j \in 1..Len(ingredients) :
        /\ i < j
        /\ ingredients[i].name = ingredients[j].name
        /\ ingredients[i].location[1] = ingredients[j].location[1]

----------------------------------------------------------------------------
(* C2 *)

Incompatible(q1, q2) ==
    q1.some /\ q2.some /\ (q1.unit # q2.unit \/ q1.tag # q2.tag)

\* Two mentions of one name whose quantities differ in unit or in the type of
\* the amount
IncompatibleMentions ==
    \E i, j \in 1..Len(ingredients) :
        /\ ingredients[i].name = ingredients[j].name
        /\ Incompatible(ingredients[i].quantity, ingredients[j].quantity)

\* C2: when two mentions of one name both carry a quantity and the quantities
\* differ in unit (one absent and one present included) or in the type of
\* the amount, Recipe.parse does not get past the merge: no Recipe is
\* returned.
C2_IncompatibleNeverMerged ==
    pc \in {"metadata", "done"} => ~IncompatibleMentions

\* The merge has raised ValueError on incompatible mentions.
C2_Witness ==
    /\ pc = "failed"
    /\ err = "ValueError"
    /\ ingr_match = <<0, 0>>
    /\ step_index = Len(raw_steps)
    /\ IncompatibleMentions

----------------------------------------------------------------------------
(* C10 *)

\* C10: span resolution never fails: the search of line 90 finds the name of
\* every mention the extractor matches, so the error of lines 93-94 (the
\* AttributeError on a search that found nothing) is unreachable.
C10_SpanResolutionNeverFails == err # "AttributeError"

----------------------------------------------------------------------------
(* C9 *)

\* The amount of a quantity fragment: what precedes its "%"
AmountOfFragment(fragment) == Slice(fragment, 1, RunEndNot(fragment, 1, {"%"}))

\* The last match is a braced annotation whose amount is empty
BracedWithEmptyAmount ==
    /\ At(CurrentMatchText, Len(CurrentMatchText)) = "}"
    /\ Strip(AmountOfFragment(AnnotationRawAmount(CurrentMatchText))) = <<>>

\* C9: a braced ingredient annotation whose quantity fragment has an empty or
\* absent amount, with or without a unit after the "%", is parsed to an
\* entry without quantity, and Recipe.parse does not fail on it.
C9_EmptyAmountIsNoQuantity ==
    /\ (MentionRaised /\ BracedWithEmptyAmount) => err # "ValueError"
    /\ (MentionParsed /\ BracedWithEmptyAmount) => ~LastMention.quantity.some

----------------------------------------------------------------------------
(* C3 *)

\* The rendered text of what precedes and of what follows the last match
RenderedBefore == RenderStep(Slice(CurrentRawStep, 1, ingr_match[1] + 1))

RenderedAfter ==
    RenderStep(Slice(CurrentRawStep, ingr_match[2] + 1, Len(CurrentRawStep) + 1))

\* The renderer has put the name of the last mention where its annotation was
ReplacedByItsName ==
    steps[step_index + 1] = RenderedBefore \o LastMention.name \o RenderedAfter

\* C3: the span given to a mention is the range of the rendered step at which
\* the mention's own annotation was replaced by its name, not the range of an
\* earlier occurrence of the same characters.
C3_SpanIsOwnOccurrence ==
    (MentionParsed /\ ReplacedByItsName)
        => LastMention.location =
               <<step_index, Len(RenderedBefore),
                 Len(RenderedBefore) + Len(LastMention.name)>>

----------------------------------------------------------------------------
(* C1 *)

\* The sum of two fractions <<numerator, denominator>>
FractionSum(a, b) == <<a[1] * b[2] + b[1] * a[2], a[2] * b[2]>>

\* The exact sum of the amounts of the mentions at the places K
RECURSIVE ExactSum(_)
ExactSum(K) ==
    IF K = {} THEN <<0, 1>>
    ELSE LET k == SetMax(K)
             q == ingredients[k].quantity
         IN  FractionSum(ExactSum(K \ {k}), <<q.num, q.den>>)

\* The tenth nearest to the fraction a
NearestTenth(a) ==
    LET t == CHOOSE x \in 0..((10 * a[1]) \div a[2] + 1) :
                 2 * Abs(x * a[2] - 10 * a[1]) <= a[2]
    IN  <<t, 10>>

\* The amounts of the mentions at the places K (not empty) added up in scan
\* order, a decimal sum being rounded to one fractional digit after each
\* addition
RECURSIVE RoundedSum(_)
RoundedSum(K) ==
    LET k == SetMax(K)
        q == ingredients[k].quantity
        sum == FractionSum(RoundedSum(K \ {k}), <<q.num, q.den>>)
    IN  IF K = {k} THEN <<q.num, q.den>>
        ELSE IF q.tag = "float" THEN NearestTenth(sum)
        ELSE sum

SameAmount(q, a) == q.num * a[2] = a[1] * q.den

\* One entry per distinct name, in the order of the first mentions, each with
\* the location of the first mention of its name
EntriesAreFirstMentions ==
    /\ \A k \in 1..Len(ingredients) :
           \E e \in 1..Len(deduped) : deduped[e].name = ingredients[k].name
    /\ \A e \in 1..Len(deduped) :
           /\ MentionsOf(deduped[e].name) # {}
           /\ deduped[e].location =
                  ingredients[SetMin(MentionsOf(deduped[e].name))].location
    /\ \A e, f \in 1..Len(deduped) :
           e < f => SetMin(MentionsOf(deduped[e].name))
                        < SetMin(MentionsOf(deduped[f].name))

\* The quantity of the entry e is Total of the mentions of its name that
\* carry a quantity, in their unit and type of amount, and is absent when
\* none carries one
EntryQuantityIs(e, Total(_)) ==
    LET K == QuantifiedMentionsOf(deduped[e].name)
        first == ingredients[SetMin(K)].quantity
    IN  IF K = {} THEN ~deduped[e].quantity.some
        ELSE /\ deduped[e].quantity.some
             /\ deduped[e].quantity.unit = first.unit
             /\ deduped[e].quantity.tag = first.tag
             /\ SameAmount(deduped[e].quantity, Total(K))

\* C1 as stated: on every accepted input the ingredients hold one entry per
\* distinct name in order of first appearance, each with the location of the
\* first mention and with the sum of the quantities of all its mentions.
C1_QuantityIsExactSum ==
    pc = "done" =>
        /\ EntriesAreFirstMentions
        /\ \A e \in 1..Len(deduped) : EntryQuantityIs(e, ExactSum)

\* C1 as amended: the same, the quantity being the mentions' quantities
\* added up in scan order with a decimal sum rounded to one fractional digit
\* after each addition.
C1_QuantityIsRoundedSum ==
    pc = "done" =>
        /\ EntriesAreFirstMentions
        /\ \A e \in 1..Len(deduped) : EntryQuantityIs(e, RoundedSum)

\* A Recipe is returned with two entries, one of them merged from two
\* mentions that both carry a quantity.
C1_Witness ==
    /\ pc = "done"
    /\ Len(deduped) >= 2
    /\ \E e \in 1..Len(deduped) :
           Cardinality(QuantifiedMentionsOf(deduped[e].name)) >= 2

----------------------------------------------------------------------------
(* C5 *)

\* What a recognised timer is to be rendered as: its amount and its unit
\* joined by one blank, and nothing when it has no quantity
TimerText(m) ==
    LET fragment == AnnotationRawAmount(m)
        amount == AmountOfFragment(fragment)
        unit == Slice(fragment, Len(amount) + 2, Len(fragment) + 1)
    IN  IF Strip(amount) = <<>> THEN <<>> ELSE amount \o <<" ">> \o unit

\* The raw step with every timer the extractor recognises, braced or not,
\* replaced by its text
RECURSIVE TimersReplacedFrom(_, _)
TimersReplacedFrom(s, i) ==
    IF i > Len(s) THEN <<>>
    ELSE LET e == AnnotationMatch(s, i, "~", 0)
         IN  IF e > 0 THEN TimerText(Slice(s, i, e)) \o TimersReplacedFrom(s, e)
             ELSE <<s[i]>> \o TimersReplacedFrom(s, i + 1)

\* C5: in every rendered step every timer the extractor recognises, braced
\* or unbraced, is replaced by its amount and unit joined by one blank, and
\* by nothing when it has no quantity; no sigil, name or brace of it remains.
C5_TimersRendered ==
    pc = "done" =>
        \A k \in 1..Len(raw_steps) :
            steps[k] = RenderNamesFrom(TimersReplacedFrom(raw_steps[k], 1), 1)

----------------------------------------------------------------------------
(* C7 *)

\* Every sigil of the line is followed by whitespace or ends the line
BareSigilsOnly(s) ==
    \A i \in 1..Len(s) :
        s[i] \in {"@", "#", "~"} => At(s, i + 1) \in Whitespace \cup {""}

\* C7: a step line in which every sigil is followed by whitespace or by the
\* end of the line is rendered unchanged and gives no ingredient; a text of
\* such lines only gives no cookware and no timer either, whatever follows
\* the sigils.
C7_BareSigilsPassThrough ==
    pc = "done" =>
        /\ \A k \in 1..Len(raw_steps) :
               BareSigilsOnly(raw_steps[k])
                   => /\ steps[k] = raw_steps[k]
                      /\ \A i \in 1..Len(ingredients) :
                             ingredients[i].location[1] # k - 1
        /\ (\A k \in 1..Len(raw_steps) : BareSigilsOnly(raw_steps[k]))
               => cookware = <<>> /\ timers = <<>>

----------------------------------------------------------------------------
(* C6 *)

\* The position after the comment that starts at position i, 0 when none
\* starts there: "--" and what follows it up to the end of the line (at least
\* one character, as the pattern asks), "[-" up to the first "-]" of the line
ShortestCommentMatch(s, i) ==
    IF At(s, i) = "-" /\ At(s, i + 1) = "-"
    THEN LET e == RunEndNot(s, i + 2, {NL}) IN IF e > i + 2 THEN e ELSE 0
    ELSE IF At(s, i) = "[" /\ At(s, i + 1) = "-"
    THEN LET eol == RunEndNot(s, i + 2, {NL})
             closers == {j \in (i + 2)..(eol - 2) : s[j] = "-" /\ s[j + 1] = "]"}
         IN  IF closers = {} THEN 0 ELSE SetMin(closers) + 2
    ELSE 0

RECURSIVE WithoutCommentsFrom(_, _)
WithoutCommentsFrom(s, i) ==
    IF i > Len(s) THEN <<>>
    ELSE LET e == ShortestCommentMatch(s, i)
         IN  IF e > 0 THEN WithoutCommentsFrom(s, e)
             ELSE <<s[i]>> \o WithoutCommentsFrom(s, i + 1)

\* C6: comment stripping removes the comment text and nothing else: a line
\* comment up to the end of its line, each block comment on its own
\* (shortest match), so that the text between two block comments of a line is
\* kept, and a line that is only a comment gives no paragraph.
C6_OnlyCommentsRemoved ==
    pc # "preprocess" =>
        raw_paragraphs =
            SelectSeq(StripEach(Split(WithoutCommentsFrom(raw, 1), NL)), NonEmpty)

----------------------------------------------------------------------------
(* C8 *)

\* The places of the lines of raw_paragraphs that start with ">>", and of the
\* others
MetadataPlaces ==
    {i \in 1..Len(raw_paragraphs) :
         Len(raw_paragraphs[i]) >= 2 /\ raw_paragraphs[i][1] = ">"
             /\ raw_paragraphs[i][2] = ">"}

StepPlaces == (1..Len(raw_paragraphs)) \ MetadataPlaces

Colons(line) == {i \in 3..Len(line) : line[i] = ":"}

\* The metadata lines of the shape >> key : value
ShapedPlaces ==
    {i \in MetadataPlaces :
         Colons(raw_paragraphs[i]) # {} /\ SetMin(Colons(raw_paragraphs[i])) > 3}

KeyAt(i) ==
    Strip(SubSeq(raw_paragraphs[i], 3, SetMin(Colons(raw_paragraphs[i])) - 1))

ValueAt(i) ==
    Strip(SubSeq(raw_paragraphs[i], SetMin(Colons(raw_paragraphs[i])) + 1,
                 Len(raw_paragraphs[i])))

\* C8: the lines that start with ">>" are metadata lines and are no steps;
\* every other line is a step, once, in the original order; a line of the
\* shape >> key : value sets metadata[key] = value, both trimmed; a ">>" line
\* without colon sets nothing; of several lines of one key the last wins.
C8_MetadataAndSteps ==
    pc = "done" =>
        /\ Len(steps) = Cardinality(StepPlaces)
        /\ \A i \in StepPlaces :
               steps[Cardinality({j \in StepPlaces : j <= i})] = raw_paragraphs[i]
        /\ DOMAIN metadata = {KeyAt(i) : i \in ShapedPlaces}
        /\ \A i \in ShapedPlaces :
               (\A j \in ShapedPlaces : j > i => KeyAt(j) # KeyAt(i))
                   => metadata[KeyAt(i)] = ValueAt(i)

\* A Recipe is returned for a text with two metadata lines of one key and
\* different values.
C8_Witness ==
    /\ pc = "done"
    /\ \E i, j \in ShapedPlaces :
           i < j /\ KeyAt(i) = KeyAt(j) /\ ValueAt(i) # ValueAt(j)

=============================================================================
